---- MODULE Spec2Model ----
(***************************************************************************)
(* Model of website_monitor_daemon.py: the WebsiteMonitor poll loop        *)
(* (monitor_browsers), the three history adapters, the prepend-ordered     *)
(* CSV sink (log_to_csv) and the shutdown signal handler.                  *)
(*                                                                         *)
(* The foreign browser stores are the environment: whether a path exists   *)
(* and what an adapter's query returns is chosen afresh at every check.    *)
(* An I/O call that can raise either succeeds or raises; the number of     *)
(* raised I/O errors in one run is bounded by MaxFaults.                   *)
(***************************************************************************)
EXTENDS Integers, Sequences, FiniteSets, TLC

MaxRows == 2
MaxFaults == 1

URLs == {"http://a.com", "http://b.com"}

\* A NULL title column arrives in Python as None; it is kept apart from every
\* string (a title is a sequence of characters).
NoneTitle == <<"<None>">>

\* The title each store holds for a page: every store has its own.
TitleIn(browser) ==
    CASE browser = "Chrome" -> <<"A", "\"">>
      [] browser = "Safari" -> NoneTitle
      [] browser = "Firefox" -> <<"F", "\n">>
      [] browser = "Edge" -> <<>>

VisitTime == "2024-01-01 00:00:00"

\* What os.listdir can return for the Firefox profiles directory.
Listings == {<<>>, <<"x1y2z3.default">>}

VARIABLES
    running,        \* self.running
    seen_urls,      \* self.seen_urls
    pc,             \* position of the main thread
    new_visits,     \* monitor_browsers: new_visits
    skipped,        \* the last (browser, url) this iteration found already seen
    profile_dirs,   \* monitor_browsers: entries of os.listdir still to visit
    i,              \* monitor_browsers: index of `visit` in new_visits
    new_row,        \* log_to_csv: new_row
    existing_data,  \* log_to_csv: existing_data (rows not yet written back)
    csv_file,       \* content of self.csv_file: a sequence of rows
    csv_before,     \* content of self.csv_file when log_to_csv was last entered
    op_log,         \* lines handed to self.logger
    tmp,            \* which scratch snapshot files exist
    run,            \* number of this daemon start (the wall clock, coarsely)
    exists,         \* monitor_browsers: what the last os.path.exists returned
    mark,           \* length of op_log when the current iteration began
    lost,           \* positions of op_log whose line no handler wrote (HandlerSpec only)
    store,          \* the foreign store an adapter call reads (PollSpec only)
    history,        \* monitor_browsers: history, the adapter's result (PollSpec only)
    absent          \* Edge's path did not exist at the last check of it (ResolveSpec only)

vars == <<running, seen_urls, pc, new_visits, skipped, profile_dirs, i,
          new_row, existing_data, csv_file, csv_before, op_log, tmp, run,
          exists, mark, lost, store, history, absent>>

\* The main loop takes each adapter result as the environment gives it and
\* never holds it beyond its for loop.
adapter_vars == <<store, history>>

fieldnames == <<"timestamp", "browser", "url", "title", "visit_time", "visit_count">>

ChromeTemp == "/tmp/chrome_history_copy.db"
SafariTemp == "/tmp/safari_history_copy.db"
FirefoxTemp == "/tmp/firefox_history_copy.db"
TempPaths == {ChromeTemp, SafariTemp, FirefoxTemp}

(***************************************************************************)
(* Pure helpers                                                            *)
(***************************************************************************)
Range(s) == {s[k] : k \in DOMAIN s}

IndexOf(s, x) == CHOOSE k \in DOMAIN s : s[k] = x

\* All sequences over S of length at most n.
SeqsUpTo(S, n) == UNION {[1..k -> S] : k \in 0..n}

\* ReplaceChar without .replace('\r', ' ').
ReplaceCharKeepsCR(c) ==
    IF c = "\"" THEN <<"\"", "\"">>
    ELSE IF c = "\n" THEN <<" ">>
    ELSE <<c>>

\* str.replace('"', '""').replace('\n', ' ').replace('\r', ' ') on one character.
ReplaceChar(c) ==
    IF c = "\"" THEN <<"\"", "\"">>
    ELSE IF c = "\n" \/ c = "\r" THEN <<" ">>
    ELSE <<c>>

RECURSIVE ReplaceAll(_)
ReplaceAll(s) == IF s = <<>> THEN <<>> ELSE ReplaceChar(Head(s)) \o ReplaceAll(Tail(s))

\* log_to_csv, line 64: the cleaned title; a None or empty title gives ''.
CleanTitle(visit_data) ==
    IF "title" \in DOMAIN visit_data
       /\ visit_data.title # NoneTitle /\ visit_data.title # <<>>
    THEN ReplaceAll(visit_data.title)
    ELSE <<>>

\* datetime.now().isoformat(): the clock is as coarse as the daemon start.
isoformat_now == ToString(run)

\* NewRow with the url column filled from the wrong key.
NewRowWrongKey(visit_data) ==
    [timestamp   |-> isoformat_now,
     browser     |-> visit_data.browser,
     url         |-> visit_data.browser,
     title       |-> CleanTitle(visit_data),
     visit_time  |-> IF "visit_time" \in DOMAIN visit_data
                     THEN visit_data.visit_time ELSE "",
     visit_count |-> IF "visit_count" \in DOMAIN visit_data
                     THEN ToString(visit_data.visit_count) ELSE ""]

\* log_to_csv, lines 66-73. Every value is given as csv.DictWriter writes it:
\* str(value), here of the integer visit_count; an absent key gives ''.
NewRow(visit_data) ==
    [timestamp   |-> isoformat_now,
     browser     |-> visit_data.browser,
     url         |-> visit_data.url,
     title       |-> CleanTitle(visit_data),
     visit_time  |-> IF "visit_time" \in DOMAIN visit_data
                     THEN visit_data.visit_time ELSE "",
     visit_count |-> IF "visit_count" \in DOMAIN visit_data
                     THEN ToString(visit_data.visit_count) ELSE ""]

\* DictReader handing the rows back last row first.
DictReaderReversed(file) ==
    IF file = <<>> THEN <<>>
    ELSE [k \in 1..(Len(file) - 1) |->
            [f \in Range(file[1]) |-> file[Len(file) + 1 - k][IndexOf(file[1], f)]]]

\* csv.DictReader over the file: the first row names the fields, every later
\* row becomes a dict keyed by those names. An empty file gives no rows.
DictReader(file) ==
    IF file = <<>> THEN <<>>
    ELSE [k \in 1..(Len(file) - 1) |->
            [f \in Range(file[1]) |-> file[k + 1][IndexOf(file[1], f)]]]

\* csv.DictWriter.writerow: the values of the dict in fieldnames order.
DictWriterRow(d) == [k \in DOMAIN fieldnames |-> d[fieldnames[k]]]

\* The dict monitor_browsers builds from one result tuple (lines 188-194,
\* 203-208, 220-226, 235-241); Safari's tuples carry no visit_count.
SafariVisit(row) ==
    [browser |-> "Safari", url |-> row.url, title |-> row.title,
     visit_time |-> row.visit_time]

Visit(browser, row) ==
    IF browser = "Safari" THEN SafariVisit(row)
    ELSE [browser |-> browser, url |-> row.url, title |-> row.title,
          visit_time |-> row.visit_time, visit_count |-> row.visit_count]

\* Collect without line 195 (self.seen_urls.add(url)).
RECURSIVE CollectNoAdd(_, _, _, _, _)
CollectNoAdd(browser, results, seen, visits, skips) ==
    IF results = <<>>
    THEN [seen_urls |-> seen, new_visits |-> visits, skipped |-> skips]
    ELSE LET row == Head(results) IN
         IF row.url \notin seen
         THEN CollectNoAdd(browser, Tail(results), seen,
                           Append(visits, Visit(browser, row)), skips)
         ELSE CollectNoAdd(browser, Tail(results), seen, visits,
                           <<browser, row.url>>)

\* Collect with new_visits.insert(0, ...) in place of new_visits.append(...).
RECURSIVE CollectInFront(_, _, _, _, _)
CollectInFront(browser, results, seen, visits, skips) ==
    IF results = <<>>
    THEN [seen_urls |-> seen, new_visits |-> visits, skipped |-> skips]
    ELSE LET row == Head(results) IN
         IF row.url \notin seen
         THEN CollectInFront(browser, Tail(results), seen \cup {row.url},
                             <<Visit(browser, row)>> \o visits, skips)
         ELSE CollectInFront(browser, Tail(results), seen, visits,
                             <<browser, row.url>>)

\* Collect with a later tuple of a url taking the place of the visit the
\* iteration collected for it.
RECURSIVE CollectReplaces(_, _, _, _, _)
CollectReplaces(browser, results, seen, visits, skips) ==
    IF results = <<>>
    THEN [seen_urls |-> seen, new_visits |-> visits, skipped |-> skips]
    ELSE LET row == Head(results) IN
         IF row.url \notin seen
         THEN CollectReplaces(browser, Tail(results), seen \cup {row.url},
                              Append(visits, Visit(browser, row)), skips)
         ELSE CollectReplaces(browser, Tail(results), seen,
                              [k \in DOMAIN visits |->
                                  IF visits[k].url = row.url
                                  THEN Visit(browser, row) ELSE visits[k]],
                              <<browser, row.url>>)

\* The for loop over one adapter result (`history`): a tuple whose url is not
\* in seen_urls is appended to new_visits and its url added to seen_urls; any
\* other tuple is passed over.
RECURSIVE Collect(_, _, _, _, _)
Collect(browser, results, seen, visits, skips) ==
    IF results = <<>>
    THEN [seen_urls |-> seen, new_visits |-> visits, skipped |-> skips]
    ELSE LET row == Head(results) IN
         IF row.url \notin seen
         THEN Collect(browser, Tail(results), seen \cup {row.url},
                      Append(visits, Visit(browser, row)), skips)
         ELSE Collect(browser, Tail(results), seen, visits,
                      <<browser, row.url>>)

\* What a history query can return: up to MaxRows tuples, most recent first;
\* the same url may occur more than once (one Safari row per visit).
ResultRows(browser) ==
    [url : URLs, title : {TitleIn(browser)}, visit_count : {1}, visit_time : {VisitTime}]

Results(browser) == SeqsUpTo(ResultRows(browser), MaxRows)

Errors == {k \in DOMAIN op_log : op_log[k][1] = "ERROR"}

\* An I/O call may still fail in this run.
CanFail == Cardinality(Errors) + Cardinality(lost) < MaxFaults

\* An adapter (lines 94-118, 120-146, 148-174): copy to the scratch path,
\* query, remove the scratch file; any exception is logged and gives [].
\* outcome: "ok", "copy" (shutil.copy2 raises) or "read" (connect, execute or
\* fetchall raises after the copy).
Adapter(temp_path, what, outcome, rows) ==
    CASE outcome = "ok" ->
           [results |-> rows, tmp |-> [tmp EXCEPT ![temp_path] = FALSE],
            op_log |-> op_log]
      [] outcome = "copy" ->
           [results |-> <<>>, tmp |-> tmp,
            op_log |-> Append(op_log, <<"ERROR", what>>)]
      [] outcome = "read" ->
           [results |-> <<>>, tmp |-> [tmp EXCEPT ![temp_path] = TRUE],
            op_log |-> Append(op_log, <<"ERROR", what>>)]

get_chrome_history(outcome, rows) ==
    Adapter(ChromeTemp, "Error reading Chrome history", outcome, rows)

get_safari_history(outcome, rows) ==
    Adapter(SafariTemp, "Error reading Safari history", outcome, rows)

get_firefox_history(outcome, rows) ==
    Adapter(FirefoxTemp, "Error reading Firefox history", outcome, rows)

\* The outcomes and results the environment can give one adapter call.
Calls(browser) ==
    {<<"ok", rows>> : rows \in Results(browser)}
      \cup (IF CanFail THEN {<<"copy", <<>> >>, <<"read", <<>> >>} ELSE {})

(***************************************************************************)
(* State after construction (__init__, init_csv_file, run)                 *)
(***************************************************************************)
\* A row an earlier run of the daemon left in the durable log.
EarlierRow ==
    <<ToString(0), "Chrome", "http://a.com", <<"A">>, VisitTime, "1">>

\* init_csv_file: an existing file is left as it is. The daemon has run
\* before: the log holds the header and one row of that run.
InitialLogs == {<<fieldnames, EarlierRow>>}

NoRow == [f \in {} |-> ""]

\* No store is held: the main loop reads whatever the environment gives.
NoStore == [browser |-> "", rows |-> <<>>]

Init ==
    /\ running = TRUE
    /\ seen_urls = {}
    /\ pc = "while"
    /\ new_visits = <<>>
    /\ skipped = <<>>
    /\ profile_dirs = <<>>
    /\ i = 1
    /\ new_row = NoRow
    /\ existing_data = <<>>
    /\ csv_file \in InitialLogs
    /\ csv_before = <<>>
    /\ op_log = << <<"INFO", "Website Monitor Daemon starting...">> >>
    /\ tmp = [p \in TempPaths |-> FALSE]
    /\ run = 1
    /\ exists = TRUE
    /\ mark = 1
    /\ lost = {}
    /\ store = NoStore
    /\ history = <<>>
    /\ absent = FALSE

(***************************************************************************)
(* monitor_browsers, step 1: collection                                    *)
(***************************************************************************)
csv_vars == <<new_row, existing_data, csv_file, csv_before, i>>

\* line 178-180: while self.running: new_visits = []
While ==
    /\ pc = "while"
    /\ running
    /\ new_visits' = <<>>
    /\ pc' = "chrome"
    /\ mark' = Len(op_log)
    /\ UNCHANGED <<running, seen_urls, skipped, profile_dirs, csv_vars, op_log, tmp, run,
                   exists, lost, adapter_vars, absent>>

\* Poll with an adapter that lets its exception through: the loop's except
\* clause ends the iteration.
PollRaises(browser, call, next) ==
    LET c == Collect(browser, call.results, seen_urls, new_visits, skipped) IN
    /\ exists' = TRUE
    /\ seen_urls' = c.seen_urls
    /\ new_visits' = c.new_visits
    /\ skipped' = c.skipped
    /\ op_log' = call.op_log
    /\ tmp' = call.tmp
    /\ pc' = IF call.op_log = op_log THEN next ELSE "sleep"

\* One source whose path exists: call the adapter, run the for loop.
Poll(browser, call, next) ==
    LET c == Collect(browser, call.results, seen_urls, new_visits, skipped) IN
    /\ exists' = TRUE
    /\ seen_urls' = c.seen_urls
    /\ new_visits' = c.new_visits
    /\ skipped' = c.skipped
    /\ op_log' = call.op_log
    /\ tmp' = call.tmp
    /\ pc' = next

\* Skip that calls the adapter on the missing path: the copy raises.
SkipCallsAdapter(next) ==
    /\ exists' = FALSE
    /\ pc' = next
    /\ op_log' = Append(op_log, <<"ERROR", "Error reading Chrome history">>)
    /\ UNCHANGED <<skipped, seen_urls, new_visits, tmp>>

\* One source whose path does not exist: nothing is called.
Skip(next) ==
    /\ exists' = FALSE
    /\ pc' = next
    /\ UNCHANGED <<skipped, seen_urls, new_visits, op_log, tmp>>

\* lines 182-195
CheckChrome ==
    /\ pc = "chrome"
    /\ \/ Skip("safari")
       \/ \E call \in Calls("Chrome") :
            /\ Poll("Chrome", get_chrome_history(call[1], call[2]), "safari")
    /\ UNCHANGED <<running, profile_dirs, csv_vars, run, mark, lost, adapter_vars, absent>>

\* lines 197-209
CheckSafari ==
    /\ pc = "safari"
    /\ \/ Skip("firefox")
       \/ \E call \in Calls("Safari") :
            /\ Poll("Safari", get_safari_history(call[1], call[2]), "firefox")
    /\ UNCHANGED <<running, profile_dirs, csv_vars, run, mark, lost, adapter_vars, absent>>

\* The iteration is over (line 249 or 253 is reached): its locals are dead,
\* the next iteration assigns each of them before it reads it.
EndIteration ==
    /\ pc' = "sleep"
    /\ new_visits' = <<>>
    /\ skipped' = <<>>
    /\ profile_dirs' = <<>>
    /\ i' = 1
    /\ new_row' = NoRow
    /\ existing_data' = <<>>
    /\ csv_before' = <<>>
    /\ exists' = TRUE

LoopError == <<"ERROR", "Error in monitoring loop">>

\* The loop without its except clause: the exception ends the process.
LoopExceptMissing ==
    /\ op_log' = op_log
    /\ pc' = "exited"
    /\ new_visits' = <<>>
    /\ skipped' = <<>>
    /\ profile_dirs' = <<>>
    /\ i' = 1
    /\ new_row' = NoRow
    /\ existing_data' = <<>>
    /\ csv_before' = <<>>
    /\ exists' = TRUE

\* The except clause of the loop, lines 251-253: log and sleep.
LoopExcept ==
    /\ op_log' = Append(op_log, <<"ERROR", "Error in monitoring loop">>)
    /\ EndIteration

\* lines 211-214: the profiles directory is missing, or is listed, or
\* os.listdir raises (the loop's except clause catches it).
CheckFirefox ==
    /\ pc = "firefox"
    /\ \/ /\ Skip("edge")
          /\ UNCHANGED <<profile_dirs, i, new_row, existing_data, csv_before, absent>>
       \/ /\ profile_dirs' \in Listings
          /\ exists' = TRUE
          /\ pc' = "profile"
          /\ UNCHANGED <<skipped, seen_urls, new_visits, op_log, tmp>>
          /\ UNCHANGED <<i, new_row, existing_data, csv_before, absent>>
       \/ /\ CanFail
          /\ LoopExcept
          /\ UNCHANGED <<seen_urls, tmp, absent>>
    /\ UNCHANGED <<running, csv_file, run, mark, lost, adapter_vars>>

\* lines 214-227: one entry of the listing.
CheckProfile ==
    /\ pc = "profile"
    /\ profile_dirs # <<>>
    /\ profile_dirs' = Tail(profile_dirs)
    /\ \/ Skip("profile")
       \/ \E call \in Calls("Firefox") :
            /\ Poll("Firefox", get_firefox_history(call[1], call[2]), "profile")
    /\ UNCHANGED <<running, csv_vars, run, mark, lost, adapter_vars, absent>>

\* line 214: the listing is exhausted.
ProfilesDone ==
    /\ pc = "profile"
    /\ profile_dirs = <<>>
    /\ pc' = "edge"
    /\ UNCHANGED <<running, seen_urls, new_visits, skipped, profile_dirs, csv_vars,
                   op_log, tmp, run, exists, mark, lost, adapter_vars, absent>>

\* CheckEdge with Edge's path resolved once: a store that was missing at its
\* last check is taken as missing.
CheckEdgeCached ==
    /\ pc = "edge"
    /\ \/ Skip("emit")
       \/ /\ ~absent
          /\ \E call \in Calls("Edge") :
               /\ Poll("Edge", get_chrome_history(call[1], call[2]), "emit")
    /\ i' = 1
    /\ UNCHANGED <<running, profile_dirs, new_row, existing_data, csv_file,
                   csv_before, run, mark, lost, adapter_vars, absent>>

\* lines 229-242: Edge is read with the Chrome adapter.
CheckEdge ==
    /\ pc = "edge"
    /\ \/ Skip("emit")
       \/ \E call \in Calls("Edge") :
            /\ Poll("Edge", get_chrome_history(call[1], call[2]), "emit")
    /\ i' = 1
    /\ UNCHANGED <<running, profile_dirs, new_row, existing_data, csv_file,
                   csv_before, run, mark, lost, adapter_vars, absent>>

(***************************************************************************)
(* monitor_browsers, step 2: emission, and log_to_csv                      *)
(***************************************************************************)
emit_vars == <<running, seen_urls, new_visits, skipped, profile_dirs, tmp, run, exists, mark,
              adapter_vars, absent>>
loop_vars == <<emit_vars, lost>>

Announcement(visit) ==
    <<"INFO", "NEW VISIT", visit.browser, visit.url, visit.title, visit.visit_time>>

\* Announce with line 246 missing: log_to_csv is entered unannounced.
AnnounceMissing ==
    /\ pc = "emit"
    /\ i <= Len(new_visits)
    /\ csv_before' = csv_file
    /\ pc' = "csv_read"
    /\ UNCHANGED <<loop_vars, new_row, existing_data, csv_file, i, op_log>>

\* Announce with a logger whose handler error comes out of logger.info: the
\* loop's except clause ends the iteration.
AnnounceRaises ==
    /\ pc = "emit"
    /\ i <= Len(new_visits)
    /\ \/ /\ op_log' = Append(op_log, Announcement(new_visits[i]))
          /\ lost' = lost
          /\ csv_before' = csv_file
          /\ pc' = "csv_read"
          /\ UNCHANGED <<emit_vars, new_row, existing_data, csv_file, i>>
       \/ /\ CanFail
          /\ lost' = lost \cup {Len(op_log) + 1}
          /\ op_log' = Append(Append(op_log, Announcement(new_visits[i])), LoopError)
          /\ pc' = "sleep"
          /\ csv_before' = csv_file
          /\ UNCHANGED <<emit_vars, new_row, existing_data, csv_file, i>>

\* lines 245-246: the next visit is announced, then log_to_csv is entered.
AnnounceStep ==
    /\ pc = "emit"
    /\ i <= Len(new_visits)
    /\ op_log' = Append(op_log, Announcement(new_visits[i]))
    /\ csv_before' = csv_file
    /\ pc' = "csv_read"
    /\ UNCHANGED <<emit_vars, new_row, existing_data, csv_file, i>>

Announce == AnnounceStep /\ UNCHANGED lost

\* Announce, with the fate of the line kept in `lost`: the line is handed to
\* self.logger, and a handler that cannot write it (the log file, the
\* stream) drops it without raising, as logging's handlers do.
AnnounceDropping ==
    /\ AnnounceStep
    /\ \/ lost' = lost
       \/ CanFail /\ lost' = lost \cup {Len(op_log) + 1}

\* line 245: no visit is left; line 249 follows.
EmitDoneStep ==
    /\ pc = "emit"
    /\ i > Len(new_visits)
    /\ EndIteration
    /\ UNCHANGED <<running, seen_urls, csv_file, op_log, tmp, run, mark, lost, adapter_vars>>

EmitDone == EmitDoneStep /\ UNCHANGED absent

\* EmitDone, keeping in `absent` what the iteration found at Edge's path, its
\* last check (line 231).
EmitDoneNoting == EmitDoneStep /\ absent' = ~exists

\* lines 91-92: the except clause of log_to_csv; the for loop goes on.
CsvExcept ==
    /\ CanFail
    /\ op_log' = Append(op_log, <<"ERROR", "Error writing to CSV">>)
    /\ pc' = "emit"
    /\ i' = i + 1

\* lines 64-82: build new_row, read the existing rows.
CsvRead ==
    /\ pc = "csv_read"
    /\ \/ /\ new_row' = NewRow(new_visits[i])
          /\ existing_data' = DictReader(csv_file)
          /\ pc' = "csv_open"
          /\ UNCHANGED <<i, op_log>>
       \/ /\ CsvExcept
          /\ UNCHANGED <<new_row, existing_data>>
    /\ UNCHANGED <<loop_vars, csv_file, csv_before>>

\* line 85: open(self.csv_file, 'w') truncates the file, or raises.
CsvOpen ==
    /\ pc = "csv_open"
    /\ \/ /\ csv_file' = <<>>
          /\ pc' = "csv_header"
          /\ UNCHANGED <<i, op_log>>
       \/ /\ CsvExcept
          /\ UNCHANGED csv_file
    /\ UNCHANGED <<loop_vars, new_row, existing_data, csv_before>>

\* line 87: writer.writeheader()
CsvHeader ==
    /\ pc = "csv_header"
    /\ \/ /\ csv_file' = Append(csv_file, fieldnames)
          /\ pc' = "csv_row"
          /\ UNCHANGED <<i, op_log>>
       \/ /\ CsvExcept
          /\ UNCHANGED csv_file
    /\ UNCHANGED <<loop_vars, new_row, existing_data, csv_before>>

\* line 88: writer.writerow(new_row)
CsvRow ==
    /\ pc = "csv_row"
    /\ \/ /\ csv_file' = Append(csv_file, DictWriterRow(new_row))
          /\ pc' = "csv_rows"
          /\ UNCHANGED <<i, op_log>>
       \/ /\ CsvExcept
          /\ UNCHANGED csv_file
    /\ UNCHANGED <<loop_vars, new_row, existing_data, csv_before>>

\* line 89: writer.writerows(existing_data), one row at a time.
CsvRows ==
    /\ pc = "csv_rows"
    /\ existing_data # <<>>
    /\ \/ /\ csv_file' = Append(csv_file, DictWriterRow(Head(existing_data)))
          /\ existing_data' = Tail(existing_data)
          /\ UNCHANGED <<pc, i, op_log>>
       \/ /\ CsvExcept
          /\ UNCHANGED <<csv_file, existing_data>>
    /\ UNCHANGED <<loop_vars, new_row, csv_before>>

\* lines 89-90: every row is written, the file is closed, log_to_csv returns.
CsvClose ==
    /\ pc = "csv_rows"
    /\ existing_data = <<>>
    /\ pc' = "emit"
    /\ i' = i + 1
    /\ UNCHANGED <<loop_vars, new_row, existing_data, csv_file, csv_before, op_log>>

\* lines 249 and 253: time.sleep(self.check_interval), then the loop test.
Sleep ==
    /\ pc = "sleep"
    /\ pc' = "while"
    /\ UNCHANGED <<loop_vars, csv_vars, op_log>>

\* signal_handler without line 259 (sys.exit): the flag is set, the thread
\* goes on where it was.
signal_handler_no_exit ==
    /\ running
    /\ op_log' = Append(op_log, <<"INFO", "Received shutdown signal, stopping daemon...">>)
    /\ running' = FALSE
    /\ UNCHANGED <<seen_urls, pc, new_visits, skipped, profile_dirs, csv_vars, tmp,
                   run, exists, mark, lost, adapter_vars, absent>>

(***************************************************************************)
(* signal_handler: SIGTERM or SIGINT, delivered at any point of the loop.  *)
(* sys.exit(0) raises SystemExit in the main thread; it is no Exception,   *)
(* so neither except clause catches it and the process ends. An open CSV   *)
(* file is closed on the way out and keeps what was written so far.        *)
(***************************************************************************)
signal_handler ==
    /\ pc # "exited"
    /\ op_log' = Append(op_log, <<"INFO", "Received shutdown signal, stopping daemon...">>)
    /\ running' = FALSE
    /\ pc' = "exited"
    \* the process is gone, and with it every object it held
    /\ seen_urls' = {}
    /\ new_visits' = <<>>
    /\ skipped' = <<>>
    /\ profile_dirs' = <<>>
    /\ i' = 1
    /\ new_row' = NoRow
    /\ existing_data' = <<>>
    /\ csv_before' = <<>>
    /\ exists' = TRUE
    /\ mark' = 1
    /\ absent' = FALSE
    /\ UNCHANGED <<csv_file, tmp, run, lost, adapter_vars>>

Step ==
    \/ While
    \/ CheckChrome
    \/ CheckSafari
    \/ CheckFirefox
    \/ CheckProfile
    \/ ProfilesDone
    \/ CheckEdge
    \/ Announce
    \/ EmitDone
    \/ CsvRead
    \/ CsvOpen
    \/ CsvHeader
    \/ CsvRow
    \/ CsvRows
    \/ CsvClose
    \/ Sleep

Next == Step \/ signal_handler

Spec == Init /\ [][Next]_vars

\* The interpreter keeps running the main thread until the process exits.
FairSpec == Spec /\ WF_vars(Step)

(***************************************************************************)
(* One adapter call against a given store (PollSpec).                      *)
(* The store is held in the state, so that what the query returns can be   *)
(* compared with what the store holds. A store row carries the columns the *)
(* queries read: url, the native timestamp t (last_visit_time,             *)
(* history_visits.visit_time, last_visit_date) and whether that column is  *)
(* NULL; its rowid is its position in the table.                           *)
(***************************************************************************)
\* LIMIT 100 (lines 107, 135, 163).
Limit == 100

MaxStore == 2
MaxTime == 1

\* Native ticks per second: Chromium and Gecko count microseconds, WebKit
\* counts seconds.
Unit(browser) == IF browser = "Safari" THEN 1 ELSE 1000000

\* The origin the native timestamp counts from.
Epoch(browser) ==
    CASE browser \in {"Chrome", "Edge"} -> "1601-01-01"
      [] browser = "Safari" -> "2001-01-01"
      [] browser = "Firefox" -> "1970-01-01"

\* datetime(t / unit + origin, 'unixepoch'): whole seconds after the origin
\* (integer division drops the part of a second).
datetime(browser, t) == <<Epoch(browser), t \div Unit(browser)>>

\* The timestamps of the enumerated stores: half-second steps where the store
\* counts microseconds, so that two rows can differ within one second.
Tick(browser) == IF browser = "Safari" THEN 1 ELSE 500000

NativeTimes(browser) == {k * Tick(browser) : k \in 0..MaxTime}

\* Only moz_places.last_visit_date may be NULL.
StoreRows(browser) ==
    [url : URLs, t : NativeTimes(browser),
     null : IF browser = "Firefox" THEN BOOLEAN ELSE {FALSE}]

\* Row k of a large table of n rows; the n - Limit first rows hold a url of
\* their own.
LargeRow(browser, n, shape, k) ==
    [url  |-> IF k <= n - Limit THEN "http://b.com" ELSE "http://a.com",
     t    |-> Tick(browser) *
              (CASE shape = "rising" -> k
                 [] shape = "falling" -> n - k
                 [] shape = "mixed" -> (k * 37) % 101),
     null |-> FALSE]

LargeSizes == {Limit - 1, Limit, Limit + 1, Limit + 50}

LargeTables(browser) ==
    {[k \in 1..n |-> LargeRow(browser, n, shape, k)] :
        n \in LargeSizes, shape \in {"rising", "falling", "mixed"}}

\* A never-visited place: last_visit_date IS NULL.
NullRow == [url |-> "http://b.com", t |-> 0, null |-> TRUE]

Tables(browser) ==
    SeqsUpTo(StoreRows(browser), MaxStore)
      \cup LargeTables(browser)
      \cup (IF browser = "Firefox"
            THEN {<<NullRow>> \o rows \o <<NullRow>> : rows \in LargeTables(browser)}
            ELSE {})

Stores ==
    UNION {{[browser |-> b, rows |-> rows] : rows \in Tables(b)} :
              b \in {"Chrome", "Safari", "Firefox", "Edge"}}

\* WHERE last_visit_date IS NOT NULL (line 161); the other queries have no
\* WHERE clause.
Qualifies(browser, row) == browser = "Firefox" => ~row.null

\* The order SQLite gives rows of equal timestamp is not fixed by the query:
\* by rowid, rising or falling.
Ties == {"rowid", "rowid desc"}

\* ORDER BY <native timestamp> DESC over rowids: a comes before b.
Before(s, tie, a, b) ==
    \/ s.rows[a].t > s.rows[b].t
    \/ /\ s.rows[a].t = s.rows[b].t
       /\ IF tie = "rowid" THEN a < b ELSE a > b

\* ORDER BY <native timestamp> ASC.
After(s, tie, a, b) ==
    \/ s.rows[a].t < s.rows[b].t
    \/ /\ s.rows[a].t = s.rows[b].t
       /\ IF tie = "rowid" THEN a < b ELSE a > b

\* Insert under ORDER BY ... ASC.
InsertAscending(s, tie, sorted, n) ==
    LET p == Cardinality({k \in DOMAIN sorted : After(s, tie, sorted[k], n)})
    IN SubSeq(sorted, 1, p) \o <<n>> \o SubSeq(sorted, p + 1, Len(sorted))

\* ORDER BY: rowid n is put in its place among the rowids sorted so far.
Insert(s, tie, sorted, n) ==
    LET p == Cardinality({k \in DOMAIN sorted : Before(s, tie, sorted[k], n)})
    IN SubSeq(sorted, 1, p) \o <<n>> \o SubSeq(sorted, p + 1, Len(sorted))

\* The rowids of the qualifying rows from row n on, sorted into `sorted` in
\* the order of the ORDER BY clause. (The test on Len(sorted) makes TLC
\* evaluate `sorted` at every row instead of all at once at the end.)
RECURSIVE OrderBy(_, _, _, _)
OrderBy(s, tie, n, sorted) ==
    IF n > Len(s.rows) \/ Len(sorted) > Len(s.rows) THEN sorted
    ELSE OrderBy(s, tie, n + 1,
                 IF Qualifies(s.browser, s.rows[n])
                 THEN Insert(s, tie, sorted, n) ELSE sorted)

\* The tuple the SELECT list makes of row a (lines 104, 130-131, 158-159).
\* rowid is no column of the result: it tells which row the tuple was made of.
Select(s, a) ==
    [url |-> s.rows[a].url, title |-> TitleIn(s.browser), visit_count |-> 1,
     visit_time |-> datetime(s.browser, s.rows[a].t), rowid |-> a]

\* cursor.execute(query); cursor.fetchall() (lines 103-111, 129-139, 157-167):
\* the qualifying rows, latest first, cut after Limit rows.
Query(s, tie) ==
    LET sorted == OrderBy(s, tie, 1, <<>>) IN
    [k \in 1..(IF Len(sorted) < Limit THEN Len(sorted) ELSE Limit) |->
        Select(s, sorted[k])]

\* The adapter monitor_browsers calls for a browser (lines 185, 200, 217, 232).
get_history(browser, outcome, rows) ==
    CASE browser \in {"Chrome", "Edge"} -> get_chrome_history(outcome, rows)
      [] browser = "Safari" -> get_safari_history(outcome, rows)
      [] browser = "Firefox" -> get_firefox_history(outcome, rows)

\* The daemon is about to call an adapter on an existing path; a.com may have
\* been seen in an earlier iteration.
PollInit ==
    /\ running = TRUE
    /\ seen_urls \in {{}, {"http://a.com"}}
    /\ pc = "execute"
    /\ new_visits = <<>>
    /\ skipped = <<>>
    /\ profile_dirs = <<>>
    /\ i = 1
    /\ new_row = NoRow
    /\ existing_data = <<>>
    /\ csv_file \in InitialLogs
    /\ csv_before = <<>>
    /\ op_log = << <<"INFO", "Website Monitor Daemon starting...">> >>
    /\ tmp = [p \in TempPaths |-> FALSE]
    /\ run = 1
    /\ exists = TRUE
    /\ mark = 1
    /\ lost = {}
    /\ store \in Stores
    /\ history = <<>>
    /\ absent = FALSE

poll_frame == <<running, profile_dirs, csv_vars, run, exists, mark, lost, store, absent>>

\* history = self.get_..._history(path): the adapter runs its query on the
\* snapshot of the store, or fails and returns [].
Execute ==
    /\ pc = "execute"
    /\ \E call \in {get_history(store.browser, "ok", Query(store, tie)) : tie \in Ties}
                   \cup (IF CanFail
                         THEN {get_history(store.browser, outcome, <<>>) :
                                  outcome \in {"copy", "read"}}
                         ELSE {}) :
         /\ history' = call.results
         /\ op_log' = call.op_log
         /\ tmp' = call.tmp
    /\ pc' = "for"
    /\ UNCHANGED <<poll_frame, seen_urls, new_visits, skipped>>

\* for url, title, ... in history: the for loop of the source.
ForLoop ==
    /\ pc = "for"
    /\ LET c == Collect(store.browser, history, seen_urls, new_visits, skipped) IN
         /\ seen_urls' = c.seen_urls
         /\ new_visits' = c.new_visits
         /\ skipped' = c.skipped
    /\ pc' = "polled"
    /\ UNCHANGED <<poll_frame, history, op_log, tmp>>

PollNext == Execute \/ ForLoop

PollSpec == PollInit /\ [][PollNext]_vars

(***************************************************************************)
(* One emission of one record with any title (SinkSpec): the record was    *)
(* collected from a source, the for loop of line 245 is about to emit it.  *)
(***************************************************************************)
MaxTitle == 3

\* The characters of a title: a letter, a double quote, a line feed, a
\* carriage return, a space.
Chars == {"a", "\"", "\n", "\r", " "}

\* He said "hi"<LF>bye, the title of the specification's scenario.
ScenarioTitle ==
    <<"H", "e", " ", "s", "a", "i", "d", " ", "\"", "h", "i", "\"", "\n", "b", "y", "e">>

\* What the title column of a store can hold: NULL, '' or a text.
Titles == {NoneTitle, ScenarioTitle} \cup SeqsUpTo(Chars, MaxTitle)

SinkInit ==
    /\ running = TRUE
    /\ pc = "emit"
    /\ \E browser \in {"Chrome", "Safari", "Firefox", "Edge"}, title \in Titles :
         new_visits = <<Visit(browser, [url |-> "http://b.com", title |-> title,
                                        visit_count |-> 1, visit_time |-> VisitTime])>>
    /\ seen_urls = {"http://b.com"}
    /\ skipped = <<>>
    /\ profile_dirs = <<>>
    /\ i = 1
    /\ new_row = NoRow
    /\ existing_data = <<>>
    /\ csv_file \in InitialLogs
    /\ csv_before = <<>>
    /\ op_log = << <<"INFO", "Website Monitor Daemon starting...">> >>
    /\ tmp = [p \in TempPaths |-> FALSE]
    /\ run = 1
    /\ exists = TRUE
    /\ mark = 1
    /\ lost = {}
    /\ store = NoStore
    /\ history = <<>>
    /\ absent = FALSE

SinkNext ==
    \/ Announce
    \/ CsvRead
    \/ CsvOpen
    \/ CsvHeader
    \/ CsvRow
    \/ CsvRows
    \/ CsvClose
    \/ EmitDone

SinkSpec == SinkInit /\ [][SinkNext]_vars

\* The whole loop, and one poll whose adapter result is held in the state.
OrderInit == Init \/ PollInit

OrderNext == Next \/ PollNext

OrderSpec == OrderInit /\ [][OrderNext]_vars

(***************************************************************************)
(* The loop, with the outcome of Edge's last path check kept from one      *)
(* iteration to the next (ResolveSpec).                                    *)
(***************************************************************************)
ResolveNext ==
    \/ While
    \/ CheckChrome
    \/ CheckSafari
    \/ CheckFirefox
    \/ CheckProfile
    \/ ProfilesDone
    \/ CheckEdge
    \/ Announce
    \/ EmitDoneNoting
    \/ CsvRead
    \/ CsvOpen
    \/ CsvHeader
    \/ CsvRow
    \/ CsvRows
    \/ CsvClose
    \/ Sleep
    \/ signal_handler

ResolveSpec == Init /\ [][ResolveNext]_vars

(***************************************************************************)
(* The loop, with the announcements a logging handler fails to write kept  *)
(* in `lost` (HandlerSpec).                                                *)
(***************************************************************************)
HandlerNext ==
    \/ While
    \/ CheckChrome
    \/ CheckSafari
    \/ CheckFirefox
    \/ CheckProfile
    \/ ProfilesDone
    \/ CheckEdge
    \/ AnnounceDropping
    \/ EmitDone
    \/ CsvRead
    \/ CsvOpen
    \/ CsvHeader
    \/ CsvRow
    \/ CsvRows
    \/ CsvClose
    \/ Sleep
    \/ signal_handler

HandlerSpec == Init /\ [][HandlerNext]_vars

TypeOK ==
    /\ running \in BOOLEAN
    /\ seen_urls \subseteq URLs
    /\ pc \in {"while", "chrome", "safari", "firefox", "profile", "edge", "emit",
               "csv_read", "csv_open", "csv_header", "csv_row", "csv_rows",
               "sleep", "exited", "execute", "for", "polled"}
    /\ lost \subseteq DOMAIN op_log
    /\ absent \in BOOLEAN
    /\ \E l \in Listings : Len(profile_dirs) <= Len(l)
    /\ \A k \in DOMAIN csv_file : Len(csv_file[k]) = Len(fieldnames)

(***************************************************************************)
(* Vocabulary of the properties                                            *)
(***************************************************************************)
CsvError == <<"ERROR", "Error writing to CSV">>
AdapterErrors ==
    {<<"ERROR", "Error reading Chrome history">>,
     <<"ERROR", "Error reading Safari history">>,
     <<"ERROR", "Error reading Firefox history">>}

\* The positions of op_log that announce url u.
Announcements(u) ==
    {k \in DOMAIN op_log : op_log[k][2] = "NEW VISIT" /\ op_log[k][4] = u}

\* The data rows of a log file: all rows after the header.
DataRows(file) == IF file = <<>> THEN <<>> ELSE Tail(file)

\* The positions of the durable log holding a row this run wrote for url u.
RowsOfRun(u) ==
    {k \in 2..Len(csv_file) : csv_file[k][1] = isoformat_now /\ csv_file[k][3] = u}

CheckPcs == {"chrome", "safari", "firefox", "profile", "edge"}
CsvPcs == {"csv_read", "csv_open", "csv_header", "csv_row", "csv_rows"}

\* Where the loop goes after the check at pc.
NextChecks(p) ==
    CASE p = "chrome" -> {"safari"}
      [] p = "safari" -> {"firefox"}
      [] p = "firefox" -> {"profile", "edge"}
      [] p = "profile" -> {"profile", "edge"}
      [] p = "edge" -> {"emit"}

\* log_to_csv has just returned for new_visits[i - 1] ...
Returned == pc = "emit" /\ i > 1
\* ... without an exception,
Succeeded == Returned /\ op_log[Len(op_log)] = Announcement(new_visits[i - 1])
\* ... or through its except clause.
Failed == Returned /\ op_log[Len(op_log)] = CsvError

\* The for loop of line 245 has emitted every collected visit.
EmissionDone == pc = "emit" /\ i > Len(new_visits)

(***************************************************************************)
(* C1. Within one run every url is emitted at most once: at most one       *)
(* announcement, at most one collected visit per iteration and at most one *)
(* row of this run, however often and from however many sources the url is *)
(* returned.                                                               *)
(***************************************************************************)
C1_EmittedAtMostOnce ==
    \A u \in URLs :
        /\ Cardinality(Announcements(u)) <= 1
        /\ Cardinality({k \in DOMAIN new_visits : new_visits[k].url = u}) <= 1
        /\ Cardinality(RowsOfRun(u)) <= 1

\* Chrome's record of u was collected and emitted in this iteration, and Edge
\* returned u in the same iteration.
C1_Witness ==
    /\ EmissionDone
    /\ skipped # <<>>
    /\ skipped[1] = "Edge"
    /\ \E k \in Announcements(skipped[2]) : k > mark /\ op_log[k][3] = "Chrome"
    /\ Cardinality(RowsOfRun(skipped[2])) = 1

(***************************************************************************)
(* C2 as stated: when an iteration's emission is complete, every url an    *)
(* adapter has returned in this run has exactly one row of this run.       *)
(***************************************************************************)
C2_ExactlyOneRow ==
    EmissionDone => \A u \in seen_urls : Cardinality(RowsOfRun(u)) = 1

(***************************************************************************)
(* C2 amended: a url never has more than one row of this run, and has      *)
(* exactly one when log_to_csv returns for it without an exception.        *)
(***************************************************************************)
C2_AtMostOneRow ==
    /\ \A u \in URLs : Cardinality(RowsOfRun(u)) <= 1
    /\ Succeeded => Cardinality(RowsOfRun(new_visits[i - 1].url)) = 1

\* One record was written, another one of the same run was not.
C2_Witness ==
    /\ Succeeded
    /\ Cardinality(RowsOfRun(new_visits[i - 1].url)) = 1
    /\ \E u \in seen_urls : RowsOfRun(u) = {}

(***************************************************************************)
(* C3. Prepend invariant: after a successful log_to_csv the log is the     *)
(* header, the row of the record, then the data rows it held before the    *)
(* call, unchanged and in the same order; the rows of this run stand above *)
(* those of earlier runs, latest announcement first.                       *)
(***************************************************************************)
NewestFirst ==
    \A j, k \in 2..Len(csv_file) :
        (j < k /\ csv_file[k][1] = isoformat_now) =>
            /\ csv_file[j][1] = isoformat_now
            /\ \A a \in Announcements(csv_file[j][3]) :
                 \A b \in Announcements(csv_file[k][3]) : a > b

C3_Prepend ==
    /\ Succeeded =>
         /\ Len(csv_file) = Len(DataRows(csv_before)) + 2
         /\ csv_file[1] = fieldnames
         /\ csv_file[2][1] = isoformat_now
         /\ csv_file[2][2] = new_visits[i - 1].browser
         /\ csv_file[2][3] = new_visits[i - 1].url
         /\ SubSeq(csv_file, 3, Len(csv_file)) = DataRows(csv_before)
    /\ NewestFirst

\* A successful call that found two data rows in the log.
C3_Witness == Succeeded /\ Len(DataRows(csv_before)) >= 2

(***************************************************************************)
(* C4 as stated: when log_to_csv fails, at whatever point, the durable log *)
(* holds exactly the rows it held before the call.                         *)
(***************************************************************************)
C4_FailedWriteLeavesLog == Failed => csv_file = csv_before

(***************************************************************************)
(* C5. The announcement comes before the write: while log_to_csv runs the  *)
(* record is the last line of the operational log, every row of this run   *)
(* has an announcement for its url, and every "Error writing to CSV" line  *)
(* directly follows an announcement.                                       *)
(***************************************************************************)
C5_AnnouncedBeforeWritten ==
    /\ pc \in CsvPcs => op_log[Len(op_log)] = Announcement(new_visits[i])
    /\ \A k \in 2..Len(csv_file) :
         csv_file[k][1] = isoformat_now => Announcements(csv_file[k][3]) # {}
    /\ \A k \in DOMAIN op_log :
         op_log[k] = CsvError => k > 1 /\ op_log[k - 1][2] = "NEW VISIT"

\* The write of an announced record failed and left no row for it.
C5_Witness ==
    /\ Failed
    /\ op_log[Len(op_log) - 1] = Announcement(new_visits[i - 1])
    /\ RowsOfRun(new_visits[i - 1].url) = {}

(***************************************************************************)
(* C6. A failing adapter logs its error and gives an empty result: the     *)
(* step collects nothing, leaves the loop running and goes on to the next  *)
(* source; whatever the iteration collects is announced in that iteration. *)
(***************************************************************************)
AdapterFailedStep ==
    /\ Len(op_log') = Len(op_log) + 1
    /\ op_log'[Len(op_log')] \in AdapterErrors

C6_ReadFailureContained ==
    /\ [][AdapterFailedStep =>
            /\ seen_urls' = seen_urls
            /\ new_visits' = new_visits
            /\ skipped' = skipped
            /\ running' = running
            /\ pc' \in NextChecks(pc)]_vars
    /\ [](EmissionDone =>
            \A k \in DOMAIN new_visits :
                \E j \in DOMAIN op_log :
                    j > mark /\ op_log[j] = Announcement(new_visits[k]))

\* Safari's adapter failed, and Edge's record of the same iteration was
\* collected, announced and written.
C6_Witness ==
    /\ EmissionDone
    /\ \E j \in DOMAIN op_log :
         /\ j > mark
         /\ op_log[j] = <<"ERROR", "Error reading Safari history">>
         /\ \E k \in DOMAIN new_visits :
              /\ new_visits[k].browser = "Edge"
              /\ \E a \in Announcements(new_visits[k].url) : a > j
              /\ Cardinality(RowsOfRun(new_visits[k].url)) = 1

(***************************************************************************)
(* C7. Only the signal ends the loop; while it runs every iteration        *)
(* reaches the sleep, and without a signal the loop sleeps again and again.*)
(***************************************************************************)
C7_LoopGoesOn ==
    /\ [](pc = "exited" => ~running)
    /\ [](running => <>(pc = "sleep" \/ ~running))
    /\ ([]<>(pc = "sleep") \/ <>(~running))

\* os.listdir raised in this iteration and the loop is at its sleep.
C7_Witness ==
    /\ pc = "sleep"
    /\ running
    /\ \E j \in DOMAIN op_log : j > mark /\ op_log[j] = LoopError

(***************************************************************************)
(* C8. Running and Stopped: the loop is running exactly until the signal   *)
(* is handled, and once stopped nothing changes any more: the flag stays   *)
(* false, no iteration starts, nothing is announced or written.            *)
(***************************************************************************)
C8_StoppedIsFinal ==
    /\ [](running <=> pc # "exited")
    /\ [][~running => UNCHANGED <<running, pc, op_log, csv_file, seen_urls>>]_vars

\* Stopped after a record was announced.
C8_Witness ==
    /\ ~running
    /\ pc = "exited"
    /\ op_log[Len(op_log)][1] = "INFO"
    /\ \E u \in URLs : Announcements(u) # {}

(***************************************************************************)
(* C9 as stated: after every adapter invocation has returned, its scratch  *)
(* snapshot no longer exists.                                              *)
(***************************************************************************)
C9_SnapshotRemoved == \A p \in TempPaths : ~tmp[p]

(***************************************************************************)
(* C10. A source whose path does not exist when it is checked: no adapter  *)
(* runs (nothing is collected, no scratch file changes), nothing is        *)
(* logged, and the loop goes on to the next source.                        *)
(***************************************************************************)
C10_MissingSourceSkipped ==
    [][(pc \in CheckPcs /\ exists' = FALSE) =>
          /\ op_log' = op_log
          /\ tmp' = tmp
          /\ seen_urls' = seen_urls
          /\ new_visits' = new_visits
          /\ running' = running
          /\ pc' \in NextChecks(pc)]_vars

\* Edge was missing; the visits of the other sources are emitted and no
\* error was logged in the iteration.
C10_Witness ==
    /\ EmissionDone
    /\ ~exists
    /\ new_visits # <<>>
    /\ \A j \in DOMAIN op_log : j > mark => op_log[j][1] # "ERROR"

(***************************************************************************)
(* C11. A query that ran on a store with n qualifying rows returns exactly *)
(* min(n, Limit) tuples, each made of a qualifying row of its own, latest  *)
(* native timestamp first; no row left out is later than a row returned;   *)
(* and the for loop collects from the returned tuples only.                *)
(***************************************************************************)
Qualifying == {a \in DOMAIN store.rows : Qualifies(store.browser, store.rows[a])}

Fetched == {history[k].rowid : k \in DOMAIN history}

\* The adapter call of PollSpec has returned the result of its query.
QueryReturned == pc \in {"for", "polled"} /\ Errors = {}

C11_CapAndOrder ==
    /\ QueryReturned =>
         /\ Len(history) = IF Cardinality(Qualifying) < Limit
                           THEN Cardinality(Qualifying) ELSE Limit
         /\ Fetched \subseteq Qualifying
         /\ Cardinality(Fetched) = Len(history)
         /\ \A k \in DOMAIN history :
              /\ history[k].url = store.rows[history[k].rowid].url
              /\ history[k].visit_time =
                   datetime(store.browser, store.rows[history[k].rowid].t)
         /\ \A j, k \in DOMAIN history :
              j < k => store.rows[history[j].rowid].t >= store.rows[history[k].rowid].t
         /\ \A a \in Qualifying \ Fetched :
              \A k \in DOMAIN history : store.rows[a].t <= store.rows[history[k].rowid].t
    /\ (QueryReturned /\ pc = "polled") =>
         \A k \in DOMAIN new_visits :
            \E j \in DOMAIN history : new_visits[k].url = history[j].url

\* 150 qualifying rows: 100 were returned, and the url only the 50 oldest
\* rows hold was not collected.
C11_Witness ==
    /\ QueryReturned
    /\ pc = "polled"
    /\ Cardinality(Qualifying) = Limit + 50
    /\ Len(history) = Limit
    /\ \E a \in Qualifying : store.rows[a].url = "http://b.com"
    /\ "http://b.com" \notin seen_urls
    /\ new_visits # <<>>

(***************************************************************************)
(* C12 as stated: the daemon starts with an empty dedup set although the   *)
(* log holds rows of an earlier run; when an iteration has emitted what it *)
(* collected, every collected url was announced again, and the rows of the *)
(* earlier run are still in the log, below the rows of this run.           *)
(***************************************************************************)
C12_RestartReemits ==
    /\ (pc = "while" /\ Len(op_log) = 1) => seen_urls = {}
    /\ EmissionDone =>
         /\ \A k \in DOMAIN new_visits : Announcements(new_visits[k].url) # {}
         /\ Len(csv_file) >= 2
         /\ csv_file[1] = fieldnames
         /\ csv_file[Len(csv_file)] = EarlierRow
         /\ \A k \in 2..(Len(csv_file) - 1) : csv_file[k][1] = isoformat_now

(***************************************************************************)
(* C13. The two side effects of an emission are each best-effort. An       *)
(* announcement whose line is dropped is still followed by log_to_csv for  *)
(* the same record, which writes its row; a failed write leaves the        *)
(* announcement made and the for loop at the next record; and when the     *)
(* emission of an iteration is done every collected record was announced.  *)
(***************************************************************************)
C13_BestEffort ==
    /\ [][(pc = "emit" /\ i <= Len(new_visits) /\ pc' # "exited") =>
            /\ pc' = "csv_read"
            /\ i' = i
            /\ new_visits' = new_visits
            /\ op_log' = Append(op_log, Announcement(new_visits[i]))]_vars
    /\ [][(pc \in CsvPcs /\ Len(op_log') > Len(op_log) /\ pc' # "exited") =>
            /\ op_log' = Append(op_log, CsvError)
            /\ op_log[Len(op_log)] = Announcement(new_visits[i])
            /\ pc' = "emit"
            /\ i' = i + 1
            /\ new_visits' = new_visits]_vars
    /\ []((Succeeded /\ Len(op_log) \in lost) =>
            csv_file[2] = DictWriterRow(NewRow(new_visits[i - 1])))
    /\ [](EmissionDone =>
            /\ i = Len(new_visits) + 1
            /\ \A k \in DOMAIN new_visits :
                 \E j \in DOMAIN op_log : op_log[j] = Announcement(new_visits[k]))

\* The line announcing the first of two records was dropped: its row was
\* written all the same, and so was the second record.
C13_Witness ==
    /\ EmissionDone
    /\ Len(new_visits) = 2
    /\ \E j \in lost : op_log[j] = Announcement(new_visits[1])
    /\ \A k \in DOMAIN new_visits : Cardinality(RowsOfRun(new_visits[k].url)) = 1

(***************************************************************************)
(* C14. The title field of the row log_to_csv builds is the title with     *)
(* every double quote doubled and every line feed and carriage return      *)
(* replaced by one space, every other character kept in its place; a NULL  *)
(* or empty title gives the empty string; the result holds no line break,  *)
(* and it is the value written to the title column of the row.             *)
(***************************************************************************)
\* Where character k of title t stands in the cleaned title: every double
\* quote before it takes two places.
Place(t, k) == k + Cardinality({j \in 1..(k - 1) : t[j] = "\""})

\* new_row is the row built for new_visits[i].
RowBuilt == pc \in {"csv_open", "csv_header", "csv_row", "csv_rows"}

C14_TitleSanitised ==
    /\ RowBuilt =>
         LET t == new_visits[i].title
             r == new_row.title
         IN /\ (t = NoneTitle \/ t = <<>>) => r = <<>>
            /\ (t # NoneTitle /\ t # <<>>) =>
                 /\ Len(r) = Len(t) + Cardinality({j \in DOMAIN t : t[j] = "\""})
                 /\ \A k \in DOMAIN t :
                      IF t[k] = "\""
                      THEN r[Place(t, k)] = "\"" /\ r[Place(t, k) + 1] = "\""
                      ELSE IF t[k] \in {"\n", "\r"}
                      THEN r[Place(t, k)] = " "
                      ELSE r[Place(t, k)] = t[k]
            /\ \A k \in DOMAIN r : r[k] \notin {"\n", "\r"}
            /\ t = ScenarioTitle =>
                 r = <<"H", "e", " ", "s", "a", "i", "d", " ", "\"", "\"", "h", "i",
                       "\"", "\"", " ", "b", "y", "e">>
    /\ pc = "csv_rows" => csv_file[2][4] = new_row.title

\* The scenario's title was cleaned and its row written.
C14_Witness ==
    /\ pc = "csv_rows"
    /\ new_visits[i].title = ScenarioTitle
    /\ Len(csv_file[2][4]) = Len(ScenarioTitle) + 2
    /\ "\"" \in Range(csv_file[2][4])

(***************************************************************************)
(* C15. Collection comes before emission and fixes its order. While the    *)
(* sources are checked nothing of the iteration is announced; a for loop   *)
(* appends the new urls of its result in the result's order, each as the   *)
(* first tuple that holds it; new_visits follows the order Chrome, Safari, *)
(* Firefox, Edge and does not change during emission; the announcements of *)
(* the iteration are those of new_visits in order; and when no write       *)
(* failed the top rows of the log are the records in reverse order.        *)
(***************************************************************************)
SourceRank(browser) ==
    CASE browser = "Chrome" -> 1
      [] browser = "Safari" -> 2
      [] browser = "Firefox" -> 3
      [] browser = "Edge" -> 4

IsAnnouncement(line) == line[2] = "NEW VISIT"

\* The announcements of the current iteration, in the order they were made.
Announced == SelectSeq(SubSeq(op_log, mark + 1, Len(op_log)), IsAnnouncement)

\* The first place of url u in the adapter result.
FirstIndex(u) ==
    CHOOSE k \in DOMAIN history :
        history[k].url = u /\ \A j \in 1..(k - 1) : history[j].url # u

EmitPcs == {"emit"} \cup CsvPcs

C15_CollectionOrder ==
    /\ [](pc \in CheckPcs => Announced = <<>>)
    /\ [][(pc = "for" /\ pc' = "polled") =>
            LET added == SubSeq(new_visits', Len(new_visits) + 1, Len(new_visits')) IN
            /\ SubSeq(new_visits', 1, Len(new_visits)) = new_visits
            /\ {added[k].url : k \in DOMAIN added}
                 = {history[k].url : k \in DOMAIN history} \ seen_urls
            /\ \A k \in DOMAIN added :
                 added[k] = Visit(store.browser, history[FirstIndex(added[k].url)])
            /\ \A j, k \in DOMAIN added :
                 j < k => FirstIndex(added[j].url) < FirstIndex(added[k].url)]_vars
    /\ [][(pc \in CheckPcs /\ pc' \in CheckPcs \cup {"emit"}) =>
            /\ Len(new_visits') >= Len(new_visits)
            /\ SubSeq(new_visits', 1, Len(new_visits)) = new_visits]_vars
    /\ [](\A j, k \in DOMAIN new_visits :
            j < k => SourceRank(new_visits[j].browser) <= SourceRank(new_visits[k].browser))
    /\ [][(pc \in EmitPcs /\ pc' \in EmitPcs) =>
            new_visits' = new_visits /\ seen_urls' = seen_urls]_vars
    /\ [](pc \in EmitPcs =>
            Announced = [k \in 1..(IF pc = "emit" THEN i - 1 ELSE i) |->
                            Announcement(new_visits[k])])
    /\ []((EmissionDone /\ \A j \in DOMAIN op_log : j > mark => op_log[j] # CsvError) =>
            \A k \in DOMAIN new_visits :
                /\ csv_file[1 + k][2] = new_visits[Len(new_visits) + 1 - k].browser
                /\ csv_file[1 + k][3] = new_visits[Len(new_visits) + 1 - k].url
                /\ csv_file[1 + k][1] = isoformat_now)

\* Chrome's record was collected before Edge's: Edge's row is on top of the
\* log, Chrome's below it.
C15_Witness ==
    /\ EmissionDone
    /\ Len(new_visits) = 2
    /\ new_visits[1].browser = "Chrome"
    /\ new_visits[2].browser = "Edge"
    /\ csv_file[2][2] = "Edge"
    /\ csv_file[3][2] = "Chrome"
    /\ Len(Announced) = 2

(***************************************************************************)
(* C16. Every iteration resolves its sources anew. At each check the path  *)
(* may be found or missing whatever an earlier iteration found, and the    *)
(* profiles directory is listed again. A store that was missing at its     *)
(* last check and is found now is polled: its result goes through the for  *)
(* loop, and when the iteration's emission is complete each of its new     *)
(* urls has been announced in this iteration and, when no write of the     *)
(* iteration failed, has its row. A store that was found at its last check *)
(* and is missing now is passed over: nothing is called or logged, and the *)
(* loop goes on running.                                                   *)
(***************************************************************************)
\* The step is the poll of Edge's store: some adapter call, then the for loop.
PolledEdge ==
    \E call \in Calls("Edge") :
        LET r == get_chrome_history(call[1], call[2])
            c == Collect("Edge", r.results, seen_urls, new_visits, skipped) IN
        /\ new_visits' = c.new_visits
        /\ seen_urls' = c.seen_urls
        /\ op_log' = r.op_log
        /\ pc' = "emit"

\* No write to the log has failed in the current iteration.
NoWriteFailed == \A j \in DOMAIN op_log : j > mark => op_log[j] # CsvError

\* Visit k of the iteration was emitted: announced in this iteration and
\* handed to log_to_csv, whose row stands in the log when no write of the
\* iteration failed.
Emitted(k) ==
    /\ \E a \in Announcements(new_visits[k].url) :
         a > mark /\ op_log[a] = Announcement(new_visits[k])
    /\ NoWriteFailed =>
         \E row \in RowsOfRun(new_visits[k].url) :
             csv_file[row][2] = new_visits[k].browser

C17_SeenImpliesAnnounced ==
    pc = "sleep" => \A u \in seen_urls : Announcements(u) # {}

(***************************************************************************)
(* C18 as stated: a termination signal that arrives while log_to_csv runs  *)
(* leaves a log that holds the header and every data row it held when the  *)
(* call began, in the same order, with or without the new row above them.  *)
(***************************************************************************)
C18_SignalKeepsRows ==
    [][(pc \in CsvPcs /\ pc' = "exited") =>
          /\ csv_file' # <<>>
          /\ csv_file'[1] = fieldnames
          /\ \/ DataRows(csv_file') = DataRows(csv_before)
             \/ /\ DataRows(csv_file') # <<>>
                /\ Tail(DataRows(csv_file')) = DataRows(csv_before)]_vars

(***************************************************************************)
(* C19. The first source wins. A check adds records only for urls that are *)
(* not in seen_urls, each with the browser name, title, visit time and     *)
(* visit count of the source being checked, and leaves the records already *)
(* collected as they are; a source that returns a url collected earlier in *)
(* the iteration comes no earlier in polling order than the source of the  *)
(* record. The announcement and the row of the url are those of that       *)
(* record, and no later step of the run changes an announcement or the     *)
(* browser, title, visit time or visit count of a row.                     *)
(***************************************************************************)
\* The source the check at pc reads.
SourceAt(p) ==
    CASE p = "chrome" -> "Chrome"
      [] p = "safari" -> "Safari"
      [] p = "firefox" -> "Firefox"
      [] p = "profile" -> "Firefox"
      [] p = "edge" -> "Edge"

\* The record a source's store gives for url u.
RecordOf(browser, u) ==
    Visit(browser, [url |-> u, title |-> TitleIn(browser), visit_count |-> 1,
                    visit_time |-> VisitTime])

C19_FirstSourceWins ==
    /\ [][(pc \in CheckPcs /\ pc' \in CheckPcs \cup {"emit"}) =>
            /\ Len(new_visits') >= Len(new_visits)
            /\ SubSeq(new_visits', 1, Len(new_visits)) = new_visits
            /\ \A k \in (Len(new_visits) + 1)..Len(new_visits') :
                 /\ new_visits'[k].url \notin seen_urls
                 /\ new_visits'[k] = RecordOf(SourceAt(pc), new_visits'[k].url)]_vars
    /\ [](skipped # <<>> =>
            \A k \in DOMAIN new_visits :
                new_visits[k].url = skipped[2] =>
                    SourceRank(new_visits[k].browser) <= SourceRank(skipped[1]))
    /\ [](Succeeded => csv_file[2] = DictWriterRow(NewRow(new_visits[i - 1])))
    /\ [](\A u \in URLs : \A a \in Announcements(u) :
            /\ \A k \in DOMAIN new_visits :
                 new_visits[k].url = u => op_log[a] = Announcement(new_visits[k])
            /\ \A row \in RowsOfRun(u) :
                 csv_file[row] = DictWriterRow(NewRow(RecordOf(op_log[a][3], u))))
    /\ [][/\ Len(op_log') >= Len(op_log)
          /\ SubSeq(op_log', 1, Len(op_log)) = op_log]_vars

\* Safari's record of a url was collected and written, and a Firefox profile
\* returned the same url later in the iteration: the row is Safari's, with
\* no title and no visit count.
C19_Witness ==
    /\ EmissionDone
    /\ skipped # <<>>
    /\ skipped[1] = "Firefox"
    /\ \E k \in DOMAIN new_visits :
         /\ new_visits[k].url = skipped[2]
         /\ new_visits[k].browser = "Safari"
    /\ \E row \in RowsOfRun(skipped[2]) :
         /\ csv_file[row][2] = "Safari"
         /\ csv_file[row][4] = <<>>
         /\ csv_file[row][6] = ""

====
